---- MODULE Spec2Model ----
(***************************************************************************)
(* Model of aws-cdk-amplify-with-waf.                                      *)
(*                                                                         *)
(* Two parts:                                                              *)
(*   - synthesis (app.py): get_config, then the declaration of             *)
(*     CustomWebAclStack and CustomAmplifyDistributionStack, then synth;   *)
(*   - runtime: the EventBridge rule rInvokeCacheInvalidation declared by  *)
(*     CustomAmplifyDistributionStack, its Lambda target with              *)
(*     retry_attempts=2, and the cache-invalidation handler.               *)
(*                                                                         *)
(* A Python string is a sequence of chunks: a one-character string for     *)
(* every character of a configuration value, and one multi-character       *)
(* string for every literal of an f-string.                                *)
(***************************************************************************)
EXTENDS Integers, Sequences, FiniteSets, TLC

VARIABLES
    context,     \* the CDK context (cdk.json and -c key=value)
    pc,          \* position in app.py's module body
    err,         \* the exception that ended app.py, if any
    cfg,         \* the tuple get_config returned, as a record
    stacks,      \* ids of the stacks declared so far
    resources,   \* what CustomAmplifyDistributionStack declared
    synthed,     \* app.synth() has run
    published,   \* number of events EventBridge has received
    lastEvent,   \* the last event EventBridge received
    inflight,    \* per received event: the dispatcher's and handler's state
    cache        \* per distribution: the paths CloudFront holds cached

synthVars == <<context, pc, err, cfg, stacks, resources, synthed>>
runVars   == <<published, lastEvent, inflight, cache>>
vars      == <<context, pc, err, cfg, stacks, resources, synthed,
               published, lastEvent, inflight, cache>>

-----------------------------------------------------------------------------
(* Bounds *)

MaxLen == 3
MaxCredLen == 2
MaxEvents == 2

-----------------------------------------------------------------------------
(* Strings *)

BranchChars == {"a", "/", "-"}
CredChars == {"a", "="}

StringsOver(chars, n) == UNION {[1..k -> chars] : k \in 1..n}

BranchNames == StringsOver(BranchChars, MaxLen)
CredentialStrings == StringsOver(CredChars, MaxCredLen)
AppIds == {<<"d", "1">>, <<"d", "2">>}
Usernames == {<<"u">>, <<"v">>}
Passwords == {<<"p">>, <<"q">>}

\* str.replace(old, new) for one-character old and new
Replace(s, old, new) == [i \in 1..Len(s) |-> IF s[i] = old THEN new ELSE s[i]]

ReplaceFirstOnly(s, old, new) ==
    [i \in 1..Len(s) |->
        IF s[i] = old /\ (\A j \in 1..(i-1) : s[j] # old) THEN new ELSE s[i]]

\* urllib.parse.quote: the characters never quoted are letters, digits and _.-~
Unreserved == {"a", "d", "u", "v", "p", "q", "1", "2", "_", ".", "-", "~"}

\* "%XX", the upper-case hexadecimal code of the character
PercentEncode(c) ==
    CASE c = "/" -> <<"%", "2", "F">>
      [] c = "=" -> <<"%", "3", "D">>
      [] c = ":" -> <<"%", "3", "A">>
      [] c = "%" -> <<"%", "2", "5">>
      [] c = " " -> <<"%", "2", "0">>

RECURSIVE QuoteSafe(_, _)
QuoteSafe(s, safe) ==
    IF s = <<>> THEN <<>>
    ELSE (IF Head(s) \in Unreserved \cup safe THEN <<Head(s)>>
          ELSE PercentEncode(Head(s))) \o QuoteSafe(Tail(s), safe)

\* quote(s) with the default safe='/'
QuoteDefaultSafe(s) == QuoteSafe(s, {"/"})

\* quote(branch_name, safe='')
Quote(s) == QuoteSafe(s, {})

-----------------------------------------------------------------------------
(* Configuration: app.py *)

RequiredFieldsButLast ==
    <<"app_id", "branch_name", "username", "password", "credentials",
      "cloudfront_id">>

\* the keys get_config reads from the bundle, in the order it reads them
RequiredFields ==
    <<"app_id", "branch_name", "username", "password", "credentials",
      "cloudfront_id", "distribution_stack_name">>

AllFields ==
    {"app_id", "branch_name", "username", "password", "credentials",
     "cloudfront_id", "distribution_stack_name"}

FullBundles ==
    [app_id : AppIds, branch_name : BranchNames, username : Usernames,
     password : Passwords, credentials : CredentialStrings,
     cloudfront_id : {<<"c", "f">>},
     distribution_stack_name : {"CustomAmplifyDistributionStack"}]

Restrict(f, S) == [k \in S |-> f[k]]

\* bundles of the context: complete, or lacking one field
Bundles ==
    {Restrict(b, AllFields \ m) :
        b \in FullBundles, m \in {{}} \cup {{k} : k \in AllFields}}

NoneValue == [kind |-> "None"]
StrValue(s) == [kind |-> "str", val |-> s]
DictValue(d) == [kind |-> "dict", val |-> d]

WebAclArn == "arn:aws:wafv2:us-east-1:acl"

\* selector values given as -c config=...; "dev" is the one bundle name
Selectors == {"", "dev", "prod"}

BaseContext == ("web_acl_arn" :> StrValue(WebAclArn))

Contexts ==
    {BaseContext @@ s @@ b :
        s \in {<<>>} \cup {("config" :> StrValue(x)) : x \in Selectors},
        b \in {<<>>} \cup {("dev" :> DictValue(d)) : d \in Bundles}}

\* app.node.try_get_context(key)
try_get_context(ctx, key) == IF key \in DOMAIN ctx THEN ctx[key] ELSE NoneValue

\* Python truthiness of a context value
Truthy(v) ==
    CASE v.kind = "None" -> FALSE
      [] v.kind = "str" -> v.val # ""
      [] v.kind = "dict" -> DOMAIN v.val # {}

NoError == [type |-> "none", arg |-> ""]

\* first key of RequiredFields that the dict lacks, 0 when none
FirstMissing(d) ==
    LET miss == {i \in 1..Len(RequiredFields) : RequiredFields[i] \notin DOMAIN d}
    IN IF miss = {} THEN 0 ELSE CHOOSE i \in miss : \A j \in miss : i <= j

\* the outcome of get_config on a context: the exception raised or the tuple
get_config(ctx) ==
    LET environment_id == try_get_context(ctx, "config") IN
    IF ~Truthy(environment_id)
    THEN [error |-> [type |-> "LookupError", arg |-> "config"]]
    ELSE
      LET unparsed_environment_parameters ==
              try_get_context(ctx, environment_id.val) IN
      IF unparsed_environment_parameters.kind # "dict"
      THEN \* None["app_id"] and "..."["app_id"]
           [error |-> [type |-> "TypeError", arg |-> environment_id.val]]
      ELSE
        LET d == unparsed_environment_parameters.val
            i == FirstMissing(d) IN
        IF i # 0
        THEN [error |-> [type |-> "KeyError", arg |-> RequiredFields[i]]]
        ELSE [error |-> NoError, value |-> d]

-----------------------------------------------------------------------------
(* CustomAmplifyDistributionStack.__init__ *)

\* amplify_auth = username + ':' + password
amplify_auth(username, password) == username \o <<":">> \o password

UsernamePassword(username, password, credentials) ==
    amplify_auth(username, password)

\* amplify_auth_credentials = credentials
amplify_auth_credentials(username, password, credentials) == credentials

\* resources=[f"arn:aws:amplify:{Aws.REGION}:{Aws.ACCOUNT_ID}:apps/{app_id}/branches/{quote(...)}"]
BranchArnPrefix ==
    <<"arn:aws:amplify:", "${AWS::Region}", ":", "${AWS::AccountId}", ":apps/">>

BranchArn(app_id, branch_name) ==
    BranchArnPrefix \o app_id \o <<"/branches/">> \o Quote(branch_name)

UpdateBranchCall(app_id, branch_name, secret) ==
    [service |-> "Amplify",
     action |-> "updateBranch",
     parameters |-> [appId |-> app_id,
                     branchName |-> branch_name,
                     enableBasicAuth |-> TRUE,
                     basicAuthCredentials |-> secret],
     physical_resource_id |-> "amplify-branch-update"]

ReplaceFirstSlash(branch_name) == ReplaceFirstOnly(branch_name, "/", "-")

\* formatted_amplify_branch = branch_name.replace("/", "-")
formatted_amplify_branch(branch_name) == Replace(branch_name, "/", "-")

OriginDomainName(app_id, branch_name) ==
    formatted_amplify_branch(branch_name) \o <<".">> \o app_id
        \o <<".amplifyapp.com">>

QuotedAuthorizationHeader(secret) == <<"Basic ">> \o QuoteDefaultSafe(secret)

\* "Authorization": "Basic " + amplify_auth_credentials
AuthorizationHeader(secret) == <<"Basic ">> \o secret

\* the deploy-time token amplify_app_distribution.distribution_id
DistributionLogicalId == "rCustomCloudFrontDistribution"
OtherDistribution == "otherDistribution"
Distributions == {DistributionLogicalId, OtherDistribution}

DistributionIdToken == [Ref |-> DistributionLogicalId]

WrongEnvironment == [DISTRIBUTION_ID |-> [Ref |-> OtherDistribution]]

\* environment={"DISTRIBUTION_ID": amplify_app_distribution.distribution_id}
HandlerEnvironment == [DISTRIBUTION_ID |-> DistributionIdToken]

AnyJobStatusPattern(app_id, branch_name) ==
    [source |-> {"aws.amplify"},
     detail_type |-> {"Amplify Deployment Status Change"},
     detail |-> [appId |-> {app_id},
                 branchName |-> {branch_name}]]

\* events.EventPattern(...)
EventPattern(app_id, branch_name) ==
    [source |-> {"aws.amplify"},
     detail_type |-> {"Amplify Deployment Status Change"},
     detail |-> [appId |-> {app_id},
                 branchName |-> {branch_name},
                 jobStatus |-> {"SUCCEED"}]]

ThreeRetries == 2 + 1

\* targets.LambdaFunction(cache_invalidation_function, retry_attempts=2)
RetryAttempts == 2

\* everything the constructor declares that the claims are about
DistributionStackResources(c, web_acl_arn) ==
    LET secret ==
            amplify_auth_credentials(c.username, c.password, c.credentials)
    IN
    [policy_resources |-> <<BranchArn(c.app_id, c.branch_name)>>,
     on_create |-> UpdateBranchCall(c.app_id, c.branch_name, secret),
     on_update |-> UpdateBranchCall(c.app_id, c.branch_name, secret),
     distribution |->
        [id |-> DistributionIdToken,
         origin |-> [domain_name |-> OriginDomainName(c.app_id, c.branch_name),
                     custom_headers |->
                        [Authorization |-> AuthorizationHeader(secret)]],
         viewer_protocol_policy |-> "REDIRECT_TO_HTTPS",
         price_class |-> "PRICE_CLASS_ALL",
         web_acl_id |-> web_acl_arn,
         comment |-> c.cloudfront_id],
     function |->
        [handler |-> "lambda_function.lambda_handler",
         timeout |-> 30,
         memory_size |-> 128,
         environment |-> HandlerEnvironment],
     rule |->
        [event_pattern |-> EventPattern(c.app_id, c.branch_name),
         targets |-> <<[target |-> "rCacheInvalidationFunction",
                        retry_attempts |-> RetryAttempts]>>]]

NoResources == [declared |-> FALSE]
NoConfig == [loaded |-> FALSE]

-----------------------------------------------------------------------------
(* Runtime state *)

NoEvent == [source |-> "none"]
Slot0 == [status |-> "none", attempts |-> 0, invocations |-> 0, calls |-> <<>>]

RunInit ==
    /\ published = 0
    /\ lastEvent = NoEvent
    /\ inflight = [e \in 1..MaxEvents |-> Slot0]
    /\ cache = [d \in Distributions |-> {}]

-----------------------------------------------------------------------------
(* Synthesis: the module body of app.py *)

Init ==
    /\ context \in Contexts
    /\ pc = "start"
    /\ err = NoError
    /\ cfg = NoConfig
    /\ stacks = {}
    /\ resources = NoResources
    /\ synthed = FALSE
    /\ RunInit

\* line 34: ... = get_config()
GetConfig ==
    /\ pc = "start"
    /\ LET r == get_config(context) IN
       IF r.error.type # "none"
       THEN /\ err' = r.error
            /\ pc' = "failed"
            /\ cfg' = cfg
       ELSE /\ err' = err
            /\ pc' = "configured"
            /\ cfg' = r.value
    /\ UNCHANGED <<context, stacks, resources, synthed, runVars>>

\* lines 36-42: CustomWebAclStack(app, "CustomWebAclStack", ...)
DeclareWebAclStack ==
    /\ pc = "configured"
    /\ stacks' = stacks \cup {"CustomWebAclStack"}
    /\ pc' = "webacl"
    /\ UNCHANGED <<context, err, cfg, resources, synthed, runVars>>

\* lines 44-59: CustomAmplifyDistributionStack(app, distribution_stack_name, ...)
DeclareDistributionStack ==
    /\ pc = "webacl"
    /\ stacks' = stacks \cup {cfg.distribution_stack_name}
    /\ resources' =
          DistributionStackResources(
              cfg, try_get_context(context, "web_acl_arn").val)
    /\ pc' = "distribution"
    /\ UNCHANGED <<context, err, cfg, synthed, runVars>>

\* lines 61-62: app.synth()
Synth ==
    /\ pc = "distribution"
    /\ synthed' = TRUE
    /\ pc' = "done"
    /\ UNCHANGED <<context, err, cfg, stacks, resources, runVars>>

Next == GetConfig \/ DeclareWebAclStack \/ DeclareDistributionStack \/ Synth

Spec == Init /\ [][Next]_vars

-----------------------------------------------------------------------------
(* Runtime: the rule rInvokeCacheInvalidation, its target and the handler *)

EventSources == {"aws.amplify", "aws.codebuild"}
DetailTypes == {"Amplify Deployment Status Change", "Amplify Other"}
JobStatuses == {"SUCCEED", "FAILED"}
EventBranches == {<<"a">>, <<"a", "/", "a">>}

EventValues ==
    [source : EventSources, detail_type : DetailTypes,
     detail : [appId : AppIds, branchName : EventBranches,
               jobStatus : JobStatuses]]

\* configurations of the deployed stack
DeployedBundles ==
    [app_id : {<<"d", "1">>}, branch_name : {<<"a", "/", "a">>},
     username : {<<"u">>}, password : {<<"p">>}, credentials : {<<"a", "=">>},
     cloudfront_id : {<<"c", "f">>},
     distribution_stack_name : {"CustomAmplifyDistributionStack"}]

RuntimeInit ==
    /\ \E b \in DeployedBundles :
          /\ context = BaseContext @@ ("config" :> StrValue("dev"))
                           @@ ("dev" :> DictValue(b))
          /\ cfg = b
          /\ resources = DistributionStackResources(b, WebAclArn)
          /\ stacks = {"CustomWebAclStack", b.distribution_stack_name}
    /\ pc = "done"
    /\ err = NoError
    /\ synthed = TRUE
    /\ RunInit

\* EventBridge's matching of an event against the rule's pattern: every field
\* the pattern names must hold one of the values the pattern lists for it
Matches(pattern, event) ==
    /\ event.source \in pattern.source
    /\ event.detail_type \in pattern.detail_type
    /\ \A k \in DOMAIN pattern.detail : event.detail[k] \in pattern.detail[k]

Paths == {"/index.html"}

\* the handler's Paths argument: all paths
InvalidationPaths == "/*"

PathMatches(pattern, p) == pattern = "/*" \/ pattern = p

\* CloudFront's invalidation: the cached copies of the matching paths are dropped
Invalidate(cached, pattern) == {p \in cached : ~PathMatches(pattern, p)}

\* functions/cache_invalidation: one create_invalidation call for the
\* distribution named by DISTRIBUTION_ID
HandlerCall(environment) ==
    [DistributionId |-> environment.DISTRIBUTION_ID.Ref,
     Paths |-> InvalidationPaths]

MaxDeliveries == 1 + resources.rule.targets[1].retry_attempts

Idle == \A e \in 1..MaxEvents : inflight[e].status \in {"none", "succeeded", "dropped"}

\* EventBridge receives an event and evaluates the rule
Publish(v) ==
    /\ pc = "done"
    /\ published < MaxEvents
    /\ published' = published + 1
    /\ lastEvent' = v
    /\ inflight' =
          IF Matches(resources.rule.event_pattern, v)
          THEN [inflight EXCEPT ![published + 1].status = "pending"]
          ELSE inflight
    /\ UNCHANGED <<synthVars, cache>>

\* one delivery attempt of the dispatcher: the first, or a retry after a failure
Deliver(e) ==
    /\ pc = "done"
    /\ inflight[e].status \in {"pending", "failed"}
    /\ inflight[e].attempts < MaxDeliveries
    /\ \/ inflight' = [inflight EXCEPT ![e].attempts = @ + 1,
                                       ![e].status = "failed"]
       \/ inflight' = [inflight EXCEPT ![e].attempts = @ + 1,
                                       ![e].invocations = @ + 1,
                                       ![e].status = "running"]
    /\ UNCHANGED <<synthVars, published, lastEvent, cache>>

\* the handler runs: it issues its call, which succeeds or fails
Handler(e) ==
    /\ pc = "done"
    /\ inflight[e].status = "running"
    /\ LET call == HandlerCall(resources.function.environment)
           d == call.DistributionId
           done == [cache EXCEPT ![d] = Invalidate(@, call.Paths)]
       IN \/ /\ inflight' = [inflight EXCEPT ![e].calls = Append(@, call),
                                             ![e].status = "succeeded"]
             /\ cache' = done
          \/ /\ inflight' = [inflight EXCEPT ![e].calls = Append(@, call),
                                             ![e].status = "failed"]
             /\ cache' \in {cache, done}
    /\ UNCHANGED <<synthVars, published, lastEvent>>

\* the dispatcher gives up on an event whose attempts are used up
Drop(e) ==
    /\ pc = "done"
    /\ inflight[e].status = "failed"
    /\ inflight[e].attempts >= MaxDeliveries
    /\ inflight' = [inflight EXCEPT ![e].status = "dropped"]
    /\ UNCHANGED <<synthVars, published, lastEvent, cache>>

\* a viewer request to the declared distribution, which leaves a cached copy
ViewerRequest(p) ==
    /\ pc = "done"
    /\ p \notin cache[DistributionLogicalId]
    /\ cache' = [cache EXCEPT ![DistributionLogicalId] = @ \cup {p}]
    /\ UNCHANGED <<synthVars, published, lastEvent, inflight>>

RuntimeNext ==
    \/ \E v \in EventValues : Publish(v)
    \/ \E e \in 1..MaxEvents : Deliver(e)
    \/ \E e \in 1..MaxEvents : Handler(e)
    \/ \E e \in 1..MaxEvents : Drop(e)
    \/ \E p \in Paths : ViewerRequest(p)

RuntimeSpec == RuntimeInit /\ [][RuntimeNext]_vars

\* the dispatcher and the Lambda service keep working on an event they hold
RuntimeFairSpec ==
    /\ RuntimeSpec
    /\ \A e \in 1..MaxEvents :
          WF_vars(Deliver(e)) /\ WF_vars(Handler(e)) /\ WF_vars(Drop(e))

-----------------------------------------------------------------------------
(* Properties of synthesis, checked under Spec *)

Declared == pc \in {"distribution", "done"}

Selector == try_get_context(context, "config")
SelectorGiven == Selector.kind = "str" /\ Selector.val # ""
SelectedBundle == try_get_context(context, Selector.val)
Count(s, c) == Cardinality({i \in 1..Len(s) : s[i] = c})

\* C3: a selector that names no configuration bundle of the context makes
\* get_config fail with a LookupError, and no stack is declared.
C3_UnknownSelectorRaisesLookupError ==
    (SelectorGiven /\ SelectedBundle.kind # "dict" /\ pc # "start")
        => /\ pc = "failed"
           /\ err.type = "LookupError"
           /\ stacks = {}
           /\ resources = NoResources

\* C4: when the selector is absent or empty, or the selected bundle lacks one
\* of the seven required fields, get_config raises an error, and no stack is
\* declared and synth never runs after it.
C4_ConfigErrorBeforeAnyStack ==
    /\ ( \/ ~SelectorGiven
         \/ /\ SelectedBundle.kind = "dict"
            /\ \E f \in AllFields : f \notin DOMAIN SelectedBundle.val )
          => /\ pc \in {"start", "failed"}
             /\ pc = "failed" => err.type \in {"LookupError", "KeyError"}
    /\ pc = "failed" =>
          /\ err.type # "none"
          /\ stacks = {}
          /\ resources = NoResources
          /\ ~synthed

C4_Witness ==
    /\ pc = "failed"
    /\ err = [type |-> "KeyError", arg |-> "distribution_stack_name"]
    /\ stacks = {}

\* C5: the Authorization header of the origin is "Basic " followed by exactly
\* the credentials string of the bundle, character for character.
C5_AuthorizationHeaderIsBasicCredentials ==
    Declared =>
        LET h == resources.distribution.origin.custom_headers.Authorization
            c == context["dev"].val.credentials
        IN /\ Len(h) = 1 + Len(c)
           /\ h[1] = "Basic "
           /\ \A i \in 1..Len(c) : h[i + 1] = c[i]

C5_Witness ==
    /\ pc = "done"
    /\ cfg.credentials = <<"a", "=">>
    /\ resources.distribution.origin.custom_headers.Authorization
          = <<"Basic ", "a", "=">>

\* C6: the origin domain name is branch_name with every "/" replaced by "-",
\* then ".", app_id and ".amplifyapp.com"; it is a function of branch_name and
\* app_id alone.
C6_OriginDomainName ==
    Declared =>
        LET dn == resources.distribution.origin.domain_name
            b == context["dev"].val.branch_name
            a == context["dev"].val.app_id
        IN /\ Len(dn) = Len(b) + 1 + Len(a) + 1
           /\ \A i \in 1..Len(b) : dn[i] = (IF b[i] = "/" THEN "-" ELSE b[i])
           /\ dn[Len(b) + 1] = "."
           /\ \A i \in 1..Len(a) : dn[Len(b) + 1 + i] = a[i]
           /\ dn[Len(dn)] = ".amplifyapp.com"
           /\ \A u \in Usernames, p \in Passwords, c \in CredentialStrings :
                 DistributionStackResources(
                     [context["dev"].val EXCEPT
                         !.username = u, !.password = p, !.credentials = c],
                     WebAclArn).distribution.origin.domain_name = dn

C6_Witness ==
    /\ pc = "done"
    /\ cfg.branch_name = <<"/", "a", "/">>
    /\ cfg.app_id = <<"d", "2">>
    /\ resources.distribution.origin.domain_name
          = <<"-", "a", "-", ".", "d", "2", ".amplifyapp.com">>

HexChar(c) ==
    CASE c = <<"2", "F">> -> "/"
      [] c = <<"3", "D">> -> "="
      [] c = <<"3", "A">> -> ":"
      [] c = <<"2", "5">> -> "%"
      [] c = <<"2", "0">> -> " "
      [] OTHER -> "?"

RECURSIVE PercentDecode(_)
PercentDecode(s) ==
    IF s = <<>> THEN <<>>
    ELSE IF Head(s) = "%" /\ Len(s) >= 3
         THEN <<HexChar(SubSeq(s, 2, 3))>> \o PercentDecode(SubSeq(s, 4, Len(s)))
         ELSE <<Head(s)>> \o PercentDecode(Tail(s))

Occurrences(s, t) ==
    Cardinality({i \in 1..(Len(s) - Len(t) + 1) : SubSeq(s, i, i + Len(t) - 1) = t})

\* C7: for a branch name containing "/", the branch segment of the ARN of the
\* scoped permission holds the branch name with each "/" as "%2F" and no raw
\* "/", the origin domain holds "-" for each "/", and the updateBranch
\* parameters and the event pattern hold the branch name unmodified.
C7_BranchNameEncodings ==
    (Declared /\ Count(context["dev"].val.branch_name, "/") > 0) =>
        LET b == context["dev"].val.branch_name
            a == context["dev"].val.app_id
            arn == resources.policy_resources[1]
            n == Len(BranchArnPrefix) + Len(a) + 1
            seg == SubSeq(arn, n + 1, Len(arn))
            dn == resources.distribution.origin.domain_name
        IN /\ SubSeq(arn, 1, n) = BranchArnPrefix \o a \o <<"/branches/">>
           /\ Count(seg, "/") = 0
           /\ Occurrences(seg, <<"%", "2", "F">>) = Count(b, "/")
           /\ Len(seg) = Len(b) + 2 * Count(b, "/")
           /\ PercentDecode(seg) = b
           /\ \A i \in 1..Len(b) : b[i] = "/" => dn[i] = "-"
           /\ resources.on_create.parameters.branchName = b
           /\ resources.on_update.parameters.branchName = b
           /\ resources.rule.event_pattern.detail.branchName = {b}

C7_Witness ==
    /\ pc = "done"
    /\ cfg.branch_name = <<"a", "/", "a">>
    /\ resources.policy_resources[1]
          = BranchArnPrefix \o cfg.app_id
                \o <<"/branches/", "a", "%", "2", "F", "a">>
    /\ resources.distribution.origin.domain_name[2] = "-"

\* C10: username and password influence no declared resource, and the secret
\* of updateBranch (on_create and on_update) and the secret of the origin's
\* Authorization header are both the credentials field.
C10_UsernamePasswordUnused ==
    Declared =>
        LET b == context["dev"].val IN
        /\ \A u \in Usernames, p \in Passwords :
              DistributionStackResources(
                  [b EXCEPT !.username = u, !.password = p], WebAclArn)
                = resources
        /\ resources.on_create.parameters.basicAuthCredentials = b.credentials
        /\ resources.on_update.parameters.basicAuthCredentials = b.credentials
        /\ resources.distribution.origin.custom_headers.Authorization
              = <<"Basic ">> \o b.credentials

C10_Witness ==
    /\ pc = "done"
    /\ cfg.username = <<"v">>
    /\ cfg.password = <<"q">>
    /\ cfg.credentials = <<"a">>
    /\ resources.on_create.parameters.basicAuthCredentials = <<"a">>

-----------------------------------------------------------------------------
(* Properties of the runtime, checked under RuntimeSpec *)

Slots == 1..MaxEvents

TargetsDeclared(call) ==
    /\ call.DistributionId = resources.distribution.id.Ref
    /\ call.DistributionId = DistributionLogicalId
    /\ call.Paths = "/*"

IsMatchingEvent(v) ==
    /\ v.source = "aws.amplify"
    /\ v.detail_type = "Amplify Deployment Status Change"
    /\ v.detail.appId = cfg.app_id
    /\ v.detail.branchName = cfg.branch_name
    /\ v.detail.jobStatus = "SUCCEED"

\* C1 as stated: every matching event yields exactly one invalidation call,
\* on the declared distribution, also when the dispatcher retries.
C1_ExactlyOneCallPerMatchingEvent ==
    \A e \in Slots :
        inflight[e].status \in {"succeeded", "dropped"}
            => /\ Len(inflight[e].calls) = 1
               /\ TargetsDeclared(inflight[e].calls[1])

\* C1 amended: a matching event is taken up by the dispatcher; every handler
\* invocation issues one call, for all paths of the declared distribution; an
\* event yields at most 3 calls, at least one when it is handled with
\* success, and exactly one when its first delivery attempt succeeds.
C1_OneCallPerInvocation ==
    /\ (published > 0 /\ IsMatchingEvent(lastEvent))
          => inflight[published].status # "none"
    /\ \A e \in Slots :
        LET s == inflight[e] IN
        /\ \A i \in 1..Len(s.calls) : TargetsDeclared(s.calls[i])
        /\ Len(s.calls) =
              (IF s.status = "running" THEN s.invocations - 1 ELSE s.invocations)
        /\ s.invocations <= s.attempts
        /\ Len(s.calls) <= 3
        /\ s.status = "succeeded" => Len(s.calls) >= 1
        /\ (s.status = "succeeded" /\ s.attempts = 1) => Len(s.calls) = 1

C1_Witness ==
    \E e \in Slots :
        /\ inflight[e].status = "succeeded"
        /\ inflight[e].attempts = 3
        /\ Len(inflight[e].calls) = 2
        /\ IsMatchingEvent(lastEvent)

\* C2: an event that differs from the pattern in at least one field invokes
\* no handler, issues no call and leaves the state as it was (Idle stays Idle).
C2_NonMatchingEventIgnored ==
    [][ (published' = published + 1 /\ ~IsMatchingEvent(lastEvent'))
           => /\ inflight' = inflight
              /\ cache' = cache
              /\ UNCHANGED synthVars
              /\ Idle => Idle' ]_vars

C2_Witness ==
    /\ published = 1
    /\ lastEvent.source = "aws.amplify"
    /\ lastEvent.detail_type = "Amplify Deployment Status Change"
    /\ lastEvent.detail.appId = cfg.app_id
    /\ lastEvent.detail.branchName = cfg.branch_name
    /\ lastEvent.detail.jobStatus = "FAILED"
    /\ inflight[1] = Slot0
    /\ Idle

C8_Steps ==
    [][ \A e \in Slots :
          LET s == inflight[e]
              t == inflight'[e] IN
          /\ t.attempts <= 3
          /\ t.invocations <= t.attempts
          /\ Len(t.calls) <= t.invocations
          /\ t.attempts # s.attempts
                => /\ t.attempts = s.attempts + 1
                   /\ \/ s.attempts = 0 /\ s.status = "pending"
                      \/ s.attempts > 0 /\ s.status = "failed"
          /\ Len(t.calls) # Len(s.calls)
                => Len(t.calls) = Len(s.calls) + 1 /\ s.status = "running"
          /\ t.status = "dropped" => t.attempts = 3
          /\ s.status \in {"dropped", "succeeded"} => t = s
          /\ (s.status = "failed" /\ s.attempts = 3)
                => t.status \in {"failed", "dropped"} ]_vars

C8_Dropped ==
    \A e \in Slots :
        (inflight[e].status = "failed" /\ inflight[e].attempts = 3)
            ~> (inflight[e].status = "dropped")

\* C8: at most 3 deliveries per event (the first and at most 2 retries), a
\* retry only after a failed attempt, one call at most per handler
\* invocation; an event whose 3 attempts have failed is dropped, and is never
\* touched again.
C8_BoundedRetryThenDrop == C8_Steps /\ C8_Dropped

C8_Witness ==
    \E e \in Slots :
        /\ inflight[e].status = "dropped"
        /\ inflight[e].attempts = 3
        /\ inflight[e].invocations = 3
        /\ Idle

RECURSIVE InvalidateTimes(_, _)
InvalidateTimes(cached, n) ==
    IF n = 0 THEN cached
    ELSE InvalidateTimes(Invalidate(cached, InvalidationPaths), n - 1)

====
